---- MODULE Spec2Model ----
(***************************************************************************)
(* A model of the table dashboard: the session provider                   *)
(* (database_manager.py), the handlers of routers/view.py, and the        *)
(* relational engine they talk to.                                        *)
(*                                                                        *)
(* A string is a sequence of atoms (a few characters each), so that the   *)
(* f-string templating, strip/upper/split and key[3:] of the handlers are *)
(* computed on text, and the engine reads the text the handler built.     *)
(* The engine runs the statements of a text in order, separated by ";".   *)
(***************************************************************************)
EXTENDS Integers, Sequences, FiniteSets, TLC

VARIABLES
    committed,      \* the database: table name -> set of committed rows
    foreign_keys,   \* inspector.get_foreign_keys: table name -> list of keys
    sessions,       \* every Session SessionLocal() has made, by number
    req             \* the requests in flight, by slot

vars == <<committed, foreign_keys, sessions, req>>

(* ------------------------------ bounds -------------------------------- *)

\* Requests served in one run (each takes a fresh session).
MaxRequests == 2
\* Fields of a submitted form (table_name apart).
MaxFields == 2

(* ------------------------------ strings ------------------------------- *)

Q == "DQUOTE"
White == {" ", "NL"}
\* Atoms matched by the regular expression \w+.
WordAtoms == {"id", "v", "a", "b", "k", "d", "ts", "n", "t", "p", "nosuch", "pk_", "_pk", "1", "2", "3", "4", "5"}

\* str.upper() on one atom.
UpperAtom(a) ==
    CASE a = "select" -> "SELECT"
      [] a = "Select" -> "SELECT"
      [] a = "insert" -> "INSERT"
      [] a = "update" -> "UPDATE"
      [] a = "delete" -> "DELETE"
      [] a = "drop" -> "DROP"
      [] a = "Drop" -> "DROP"
      [] a = "create" -> "CREATE"
      [] a = "alter" -> "ALTER"
      [] a = "truncate" -> "TRUNCATE"
      [] a = "grant" -> "GRANT"
      [] a = "revoke" -> "REVOKE"
      [] a = "from" -> "FROM"
      [] a = "table" -> "TABLE"
      [] a = "analyze" -> "ANALYZE"
      [] a = "commit" -> "COMMIT"
      [] OTHER -> a

upper(s) == [i \in 1..Len(s) |-> UpperAtom(s[i])]

RECURSIVE lstrip(_)
lstrip(s) == IF s # <<>> /\ Head(s) \in White THEN lstrip(Tail(s)) ELSE s

RECURSIVE rstrip(_)
rstrip(s) ==
    IF s # <<>> /\ s[Len(s)] \in White THEN rstrip(SubSeq(s, 1, Len(s) - 1)) ELSE s

strip(s) == rstrip(lstrip(s))

\* Index of the last atom of the run of non-white atoms that starts at i.
RECURSIVE RunEnd(_, _)
RunEnd(s, i) == IF i < Len(s) /\ s[i + 1] \notin White THEN RunEnd(s, i + 1) ELSE i

\* str.split(): the maximal runs of non-white atoms.
RECURSIVE split(_)
split(s) ==
    LET t == lstrip(s)
    IN  IF t = <<>> THEN <<>>
        ELSE LET e == RunEnd(t, 1)
             IN  <<SubSeq(t, 1, e)>> \o split(SubSeq(t, e + 1, Len(t)))

startswith_pk(key) == key # <<>> /\ Head(key) = "pk_"

(* ------------------------------ values -------------------------------- *)

StrV(s) == [ty |-> "str", s |-> s]
IntV(s) == [ty |-> "int", s |-> s]
None == [ty |-> "null", s |-> ""]
FloatV(s) == [ty |-> "float", s |-> s]
DateV(s) == [ty |-> "date", s |-> s]
DateTimeV(s) == [ty |-> "datetime", s |-> s]

Numeric == {"1", "2"}
\* The strings float() converts, and those fromisoformat() converts.
Floats == Numeric \cup {"1.5"}
IsoDates == {"2024-01-01"}

(* ------------------------------ schema -------------------------------- *)

Col(name, type, nullable, pk) ==
    [name |-> name, type |-> type, nullable |-> nullable, primary_key |-> pk]

T == <<"t">>
P == <<"p">>
D == <<"d">>

\* inspector.get_table_names()
TableNames == <<T, P, D>>

\* metadata.tables[table_name].columns
Columns(tn) ==
    IF tn = T THEN << Col(<<"id">>, "Integer", FALSE, TRUE),
                      Col(<<"v">>, "String", TRUE, FALSE) >>
    ELSE IF tn = D THEN << Col(<<"k">>, "Integer", FALSE, TRUE),
                           Col(<<"d">>, "Date", FALSE, FALSE),
                           Col(<<"ts">>, "DateTime", TRUE, FALSE),
                           Col(<<"n">>, "Numeric", TRUE, FALSE) >>
    ELSE << Col(<<"a">>, "Integer", FALSE, TRUE),
            Col(<<"b">>, "String", TRUE, FALSE) >>

Range(f) == {f[i] : i \in DOMAIN f}
ColumnNames(tn) == [i \in 1..Len(Columns(tn)) |-> Columns(tn)[i].name]
ColumnOf(tn, c) == CHOOSE col \in Range(Columns(tn)) : col.name = c

\* The value of F at the value of e, which is evaluated once.
Let(e, F(_)) == CHOOSE y \in { F(x) : x \in {e} } : TRUE

(* ---------------------------- python dicts ---------------------------- *)

\* A dict is the sequence of its <<key, value>> items, in insertion order.
Keys(d) == [i \in 1..Len(d) |-> d[i][1]]
Has(d, k) == \E i \in 1..Len(d) : d[i][1] = k
Get(d, k) == d[CHOOSE i \in 1..Len(d) : d[i][1] = k][2]
\* d[k] = x
Put(d, k, x) ==
    IF Has(d, k) THEN [i \in 1..Len(d) |-> IF d[i][1] = k THEN <<k, x>> ELSE d[i]]
    ELSE Append(d, <<k, x>>)
\* {**d, **e}
RECURSIVE Merge(_, _)
Merge(d, e) == IF e = <<>> THEN d ELSE Merge(Put(d, e[1][1], e[1][2]), Tail(e))

\* sep.join(parts)
RECURSIVE join(_, _)
join(sep, parts) ==
    IF parts = <<>> THEN <<>>
    ELSE IF Len(parts) = 1 THEN parts[1]
    ELSE parts[1] \o sep \o join(sep, Tail(parts))

(* ----------------------- the text a statement is ---------------------- *)

\* Index of the last atom of the run of word atoms that starts at i (i - 1: none).
RECURSIVE WordEnd(_, _)
WordEnd(s, i) == IF i <= Len(s) /\ s[i] \in WordAtoms THEN WordEnd(s, i + 1) ELSE i - 1

\* text(): the names of the bind parameters, every :name of the raw text.
BindNames(s) ==
    { SubSeq(s, j + 1, WordEnd(s, j + 1)) :
        j \in { i \in 1..Len(s) :
                  /\ s[i] = ":"
                  /\ WordEnd(s, i + 1) > i
                  /\ (i = 1 \/ s[i - 1] \notin WordAtoms \cup {":"})
                  /\ (WordEnd(s, i + 1) = Len(s) \/ s[WordEnd(s, i + 1) + 1] # ":") } }

\* Index of the first quote at or after i (0: none).
NextQuote(s, i) ==
    IF \E j \in i..Len(s) : s[j] = Q
    THEN CHOOSE j \in i..Len(s) : s[j] = Q /\ \A k \in i..(j - 1) : s[k] # Q
    ELSE 0

Kw(x) == [k |-> "kw", s |-> <<x>>]
Bad == [k |-> "bad", s |-> <<>>]

\* The engine's lexer: white space skipped, a comment runs to the end of the
\* text, "..." is an identifier, :name a bound value, anything else a keyword
\* read without regard to case.
RECURSIVE LexFrom(_, _)
LexFrom(s, i) ==
    IF i > Len(s) THEN <<>>
    ELSE IF s[i] = "--" THEN <<>>
    ELSE IF s[i] \in White THEN LexFrom(s, i + 1)
    ELSE IF s[i] = Q THEN
        LET j == NextQuote(s, i + 1)
        IN  IF j = 0 \/ j = i + 1 THEN <<Bad>>
            ELSE <<[k |-> "id", s |-> SubSeq(s, i + 1, j - 1)]>> \o LexFrom(s, j + 1)
    ELSE IF s[i] = ":" THEN
        LET j == WordEnd(s, i + 1)
        IN  IF j = i THEN <<Bad>>
            ELSE <<[k |-> "bind", s |-> SubSeq(s, i + 1, j)]>> \o LexFrom(s, j + 1)
    ELSE <<Kw(UpperAtom(s[i]))>> \o LexFrom(s, i + 1)

Lex(s) == LexFrom(s, 1)

\* The identifiers a text names.
Identifiers(s) == { l.s : l \in { x \in Range(Lex(s)) : x.k = "id" } }

\* L cut at every lexeme equal to sep.
RECURSIVE SplitBy(_, _)
SplitBy(L, sep) ==
    IF \E i \in 1..Len(L) : L[i] = sep
    THEN LET i == CHOOSE i \in 1..Len(L) : L[i] = sep /\ \A k \in 1..(i - 1) : L[k] # sep
         IN  <<SubSeq(L, 1, i - 1)>> \o SplitBy(SubSeq(L, i + 1, Len(L)), sep)
    ELSE <<L>>

(* ----------------------------- the engine ----------------------------- *)

TableSet == Range(TableNames)
IsTable(tn) == tn \in TableSet
IsColumn(tn, c) == \E col \in Range(Columns(tn)) : col.name = c

\* The engine's conversion of a bound value to a column's type.
CanCoerce(type, x) ==
    \/ x.ty = "null"
    \/ type = "String"
    \/ type = "Integer" /\ x.s \in Numeric
    \/ type = "Numeric" /\ x.s \in Floats
    \/ type \in {"Date", "DateTime"} /\ x.s \in IsoDates
Coerce(type, x) ==
    IF x.ty = "null" THEN None
    ELSE IF type = "Integer" THEN IntV(x.s)
    ELSE IF type = "Numeric" THEN FloatV(x.s)
    ELSE IF type = "Date" THEN DateV(x.s)
    ELSE IF type = "DateTime" THEN DateTimeV(x.s)
    ELSE StrV(x.s)

\* Constraints of the schema on a content of the database.
Integrity(view) ==
    /\ \A tn \in TableSet : \A r \in view[tn] : \A col \in Range(Columns(tn)) :
          ~col.nullable => r[col.name] # None
    /\ \A tn \in TableSet : \A r1, r2 \in view[tn] :
          (\A col \in Range(Columns(tn)) : col.primary_key => r1[col.name] = r2[col.name])
              => r1 = r2
    /\ \A tn \in TableSet : \A i \in 1..Len(foreign_keys[tn]) :
          LET fk == foreign_keys[tn][i]
              n == Len(fk.constrained_columns)
          IN  \A r \in view[tn] :
                (\A k \in 1..n : r[fk.constrained_columns[k]] # None) =>
                    \E pr \in view[fk.referred_table] :
                        \A k \in 1..n : pr[fk.referred_columns[k]].s = r[fk.constrained_columns[k]].s

RECURSIVE SetToSeq(_)
SetToSeq(S) == IF S = {} THEN <<>> ELSE LET x == CHOOSE x \in S : TRUE IN <<x>> \o SetToSeq(S \ {x})

Failure(kind, view) ==
    [ok |-> FALSE, error |-> kind, returns_rows |-> FALSE, keys |-> <<>>, rows |-> <<>>,
     rowcount |-> 0, view |-> view]
Rows(view, keys, rows) ==
    [ok |-> TRUE, error |-> "", returns_rows |-> TRUE, keys |-> keys, rows |-> rows,
     rowcount |-> Len(rows), view |-> view]
Changed(old, new, n) ==
    IF Integrity(new)
    THEN [ok |-> TRUE, error |-> "", returns_rows |-> FALSE, keys |-> <<>>, rows |-> <<>>,
          rowcount |-> n, view |-> new]
    ELSE Failure("IntegrityError", old)

\* One condition of a WHERE clause: "c" = :b, or "c" IS NOT NULL.
CondOk(tn, params, c) ==
    /\ Len(c) \in {2, 3}
    /\ c[1].k = "id" /\ IsColumn(tn, c[1].s)
    /\ \/ Len(c) = 2 /\ c[2] = Kw("IS NOT NULL")
       \/ Len(c) = 3 /\ c[2] = Kw("=") /\ c[3].k = "bind"
CondData(tn, params, c) ==
    Len(c) = 3 => CanCoerce(ColumnOf(tn, c[1].s).type, Get(params, c[3].s))
CondHolds(tn, params, c, r) ==
    IF Len(c) = 2 THEN r[c[1].s] # None
    ELSE LET x == Coerce(ColumnOf(tn, c[1].s).type, Get(params, c[3].s))
         IN  x # None /\ r[c[1].s] = x

\* A WHERE clause (the lexemes after WHERE): its conditions, joined by AND.
Conds(W) == SplitBy(W, Kw("AND"))
WhereError(tn, params, W) ==
    IF ~ \A i \in 1..Len(Conds(W)) : CondOk(tn, params, Conds(W)[i]) THEN "ProgrammingError"
    ELSE IF ~ \A i \in 1..Len(Conds(W)) : CondData(tn, params, Conds(W)[i]) THEN "DataError"
    ELSE ""
\* The rows of tn the clause selects.
Matching(view, tn, params, W) ==
    { r \in view[tn] : \A i \in 1..Len(Conds(W)) : CondHolds(tn, params, Conds(W)[i], r) }

\* One assignment of a SET clause: "c" = :b.
AssignOk(tn, a) ==
    Len(a) = 3 /\ a[1].k = "id" /\ IsColumn(tn, a[1].s) /\ a[2] = Kw("=") /\ a[3].k = "bind"

\* SELECT | SELECT FROM "t" | SELECT * FROM "t" | SELECT DISTINCT "c" FROM "t"
\* | SELECT "c", ... FROM "t" (a column may be named more than once).
Select(view, L) ==
    IF Len(L) = 1 THEN Rows(view, <<>>, << <<>> >>)
    ELSE IF Len(L) = 3 /\ L[2] = Kw("FROM") /\ L[3].k = "id" THEN
        IF ~IsTable(L[3].s) THEN Failure("ProgrammingError", view)
        ELSE Rows(view, <<>>, [i \in 1..Cardinality(view[L[3].s]) |-> <<>>])
    ELSE IF Len(L) = 4 /\ L[2] = Kw("*") /\ L[3] = Kw("FROM") /\ L[4].k = "id" THEN
        IF ~IsTable(L[4].s) THEN Failure("ProgrammingError", view)
        ELSE LET cols == ColumnNames(L[4].s)
             IN  Rows(view, cols,
                      SetToSeq({ [i \in 1..Len(cols) |-> r[cols[i]]] : r \in view[L[4].s] }))
    ELSE IF Len(L) = 5 /\ L[2] = Kw("DISTINCT") /\ L[3].k = "id" /\ L[4] = Kw("FROM")
            /\ L[5].k = "id" THEN
        IF ~IsTable(L[5].s) \/ ~IsColumn(L[5].s, L[3].s) THEN Failure("ProgrammingError", view)
        ELSE Rows(view, <<L[3].s>>, SetToSeq({ <<r[L[3].s]>> : r \in view[L[5].s] }))
    ELSE IF Len(L) >= 4 /\ L[Len(L) - 1] = Kw("FROM") /\ L[Len(L)].k = "id" THEN
        LET tn == L[Len(L)].s
            items == SplitBy(SubSeq(L, 2, Len(L) - 2), Kw(","))
        IN  IF \/ ~IsTable(tn)
               \/ \E i \in 1..Len(items) :
                     Len(items[i]) # 1 \/ items[i][1].k # "id" \/ ~IsColumn(tn, items[i][1].s)
            THEN Failure("ProgrammingError", view)
            ELSE LET rows == SetToSeq(view[tn])
                 IN  Rows(view, [i \in 1..Len(items) |-> items[i][1].s],
                          [j \in 1..Len(rows) |->
                              [i \in 1..Len(items) |-> rows[j][items[i][1].s]]])
    ELSE Failure("ProgrammingError", view)

\* INSERT INTO "t" ("c", ...) VALUES (:b, ...)
Insert(view, params, L) ==
    LET o == CHOOSE i \in 1..Len(L) : L[i] = Kw("(")
        c == CHOOSE i \in 1..Len(L) : L[i] = Kw(")")
        cols == SplitBy(SubSeq(L, o + 1, c - 1), Kw(","))
        vals == SplitBy(SubSeq(L, c + 3, Len(L) - 1), Kw(","))
        tn == L[3].s
        shape ==
            /\ Len(L) >= 9 /\ L[2] = Kw("INTO") /\ L[3].k = "id" /\ L[4] = Kw("(")
            /\ \E i \in 1..Len(L) : L[i] = Kw(")")
            /\ c + 2 <= Len(L) - 1 /\ L[c + 1] = Kw("VALUES") /\ L[c + 2] = Kw("(")
            /\ L[Len(L)] = Kw(")")
            /\ Len(cols) = Len(vals)
            /\ \A i \in 1..Len(cols) : Len(cols[i]) = 1 /\ cols[i][1].k = "id"
            /\ \A i \in 1..Len(vals) : Len(vals[i]) = 1 /\ vals[i][1].k = "bind"
    IN  IF ~shape THEN Failure("ProgrammingError", view)
        ELSE IF \/ ~IsTable(tn)
                \/ (\E i \in 1..Len(cols) : ~IsColumn(tn, cols[i][1].s))
                \/ (\E i, j \in 1..Len(cols) : i # j /\ cols[i][1].s = cols[j][1].s)
        THEN Failure("ProgrammingError", view)
        ELSE IF \E i \in 1..Len(cols) :
                  ~CanCoerce(ColumnOf(tn, cols[i][1].s).type, Get(params, vals[i][1].s))
        THEN Failure("DataError", view)
        ELSE LET given(cn) == \E i \in 1..Len(cols) : cols[i][1].s = cn
                 at(cn) == CHOOSE i \in 1..Len(cols) : cols[i][1].s = cn
                 row == [cn \in Range(ColumnNames(tn)) |->
                           IF given(cn)
                           THEN Coerce(ColumnOf(tn, cn).type, Get(params, vals[at(cn)][1].s))
                           ELSE None]
             IN  IF \E r \in view[tn] : \A col \in Range(Columns(tn)) :
                        col.primary_key => r[col.name] = row[col.name]
                 THEN Failure("IntegrityError", view)
                 ELSE Changed(view, [view EXCEPT ![tn] = @ \cup {row}], 1)

\* UPDATE "t" SET "c" = :b, ... WHERE ...
Update(view, params, L) ==
    LET w == CHOOSE i \in 1..Len(L) : L[i] = Kw("WHERE")
        sets == SplitBy(SubSeq(L, 4, w - 1), Kw(","))
        W == SubSeq(L, w + 1, Len(L))
        tn == L[2].s
        shape == /\ Len(L) >= 4 /\ L[2].k = "id" /\ L[3] = Kw("SET")
                 /\ \E i \in 4..Len(L) : L[i] = Kw("WHERE")
    IN  IF ~shape THEN Failure("ProgrammingError", view)
        ELSE IF \/ ~IsTable(tn)
                \/ (\E i \in 1..Len(sets) : ~AssignOk(tn, sets[i]))
                \/ (\E i, j \in 1..Len(sets) : i # j /\ sets[i][1].s = sets[j][1].s)
        THEN Failure("ProgrammingError", view)
        ELSE IF WhereError(tn, params, W) # "" THEN Failure(WhereError(tn, params, W), view)
        ELSE IF \E i \in 1..Len(sets) :
                  ~CanCoerce(ColumnOf(tn, sets[i][1].s).type, Get(params, sets[i][3].s))
        THEN Failure("DataError", view)
        ELSE LET hit == Matching(view, tn, params, W)
                 set(cn) == \E i \in 1..Len(sets) : sets[i][1].s = cn
                 at(cn) == CHOOSE i \in 1..Len(sets) : sets[i][1].s = cn
                 img(r) == IF r \notin hit THEN r
                           ELSE [cn \in DOMAIN r |->
                                   IF set(cn)
                                   THEN Coerce(ColumnOf(tn, cn).type, Get(params, sets[at(cn)][3].s))
                                   ELSE r[cn]]
             IN  IF \E r1, r2 \in view[tn] : r1 # r2 /\ img(r1) = img(r2)
                 THEN Failure("IntegrityError", view)
                 ELSE Changed(view, [view EXCEPT ![tn] = { img(r) : r \in view[tn] }],
                              Cardinality(hit))

\* DELETE FROM "t" WHERE ... | DELETE FROM "t"
Delete(view, params, L) ==
    LET tn == L[3].s
        W == SubSeq(L, 5, Len(L))
        shape == /\ Len(L) >= 3 /\ L[2] = Kw("FROM") /\ L[3].k = "id"
                 /\ (Len(L) > 3 => L[4] = Kw("WHERE"))
    IN  IF ~shape \/ ~IsTable(tn) THEN Failure("ProgrammingError", view)
        ELSE IF Len(L) = 3 THEN Changed(view, [view EXCEPT ![tn] = {}], Cardinality(view[tn]))
        ELSE IF WhereError(tn, params, W) # "" THEN Failure(WhereError(tn, params, W), view)
        ELSE LET hit == Matching(view, tn, params, W)
             IN  Changed(view, [view EXCEPT ![tn] = @ \ hit], Cardinality(hit))

\* A command that returns no rows and changes none.
Command(view) ==
    [ok |-> TRUE, error |-> "", returns_rows |-> FALSE, keys |-> <<>>, rows |-> <<>>,
     rowcount |-> 0, view |-> view]

\* What the engine does with one statement (its lexemes) on a transaction's
\* view of the database: the result and the view after it.
Statement(view, L, params) ==
    IF L = <<>> \/ L[1].k # "kw" THEN Failure("ProgrammingError", view)
    ELSE IF L[1] = Kw("SELECT") THEN Select(view, L)
    ELSE IF L[1] = Kw("INSERT") THEN Insert(view, params, L)
    ELSE IF L[1] = Kw("UPDATE") THEN Update(view, params, L)
    ELSE IF L[1] = Kw("DELETE") THEN Delete(view, params, L)
    ELSE IF L[1] = Kw("WITH") /\ Len(L) = 3 /\ L[2] = Kw("report") THEN
        Rows(view, <<<<"report">>>>, <<>>)
    ELSE IF L[1] = Kw("ANALYZE") /\ Len(L) = 1 THEN Command(view)
    ELSE Failure("ProgrammingError", view)

\* The statements of one text, run in order by the engine; the result is the
\* last statement's.  COMMIT ends the transaction the driver began: what the
\* statements before it did is committed, and the statements after it are
\* committed at the end of the text.  A statement that fails ends the text.
RECURSIVE Script(_, _, _, _, _, _)
Script(db, view, open, parts, params, last) ==
    IF parts = <<>> THEN [result |-> last, db |-> IF open THEN db ELSE view]
    ELSE IF Head(parts) = <<Kw("COMMIT")>>
    THEN Script(view, view, FALSE, Tail(parts), params, Command(view))
    ELSE Let(Statement(view, Head(parts), params), LAMBDA res :
            IF ~res.ok THEN [result |-> [res EXCEPT !.view = db], db |-> db]
            ELSE Script(db, res.view, open, Tail(parts), params, res))

\* The engine on the text of one execute call: the driver sends the text as it
\* is, so a text of several statements separated by ";" runs them all.
Engine(db, view, stmt, params) ==
    Let(Lex(stmt), LAMBDA L :
        IF \E n \in BindNames(stmt) : ~Has(params, n)
        THEN [result |-> Failure("StatementError", view), db |-> db]
        ELSE IF Bad \in Range(L) THEN [result |-> Failure("ProgrammingError", view), db |-> db]
        ELSE Let(SelectSeq(SplitBy(L, Kw(";")), LAMBDA part : part # <<>>), LAMBDA parts :
                IF parts = <<>> THEN [result |-> Failure("ProgrammingError", view), db |-> db]
                ELSE Script(db, view, TRUE, parts, params, Command(view))))

(* ----------------------------- the session ---------------------------- *)

NoView == [tn \in TableSet |-> {}]

\* SessionLocal(): a new Session, autocommit off, no transaction begun.
NewSession == [closes |-> 0, tx |-> FALSE, view |-> NoView, used_closed |-> FALSE]

\* What a handler works on: the committed database, its session, and the
\* calls it has made on the session.
Ctx(db, sess) ==
    [db |-> db, sess |-> sess, executed |-> <<>>, commits |-> 0, rollbacks |-> 0]

\* db.execute(text(stmt), params): the transaction begins with the first
\* statement; a failed statement raises and changes nothing.
execute(ctx, stmt, params) ==
    Let(Engine(ctx.db, IF ctx.sess.tx THEN ctx.sess.view ELSE ctx.db, stmt, params), LAMBDA e :
        [ctx |-> [ctx EXCEPT !.db = e.db,
                             !.sess = [@ EXCEPT !.tx = TRUE, !.view = e.result.view,
                                                !.used_closed = @ \/ ctx.sess.closes > 0],
                             !.executed = Append(@, [text |-> stmt, params |-> params])],
         result |-> e.result])

\* db.commit()
commit(ctx) ==
    [ctx EXCEPT !.db = IF ctx.sess.tx THEN ctx.sess.view ELSE @,
                !.sess = [@ EXCEPT !.tx = FALSE, !.view = NoView],
                !.commits = @ + 1]

\* db.rollback()
rollback(ctx) ==
    [ctx EXCEPT !.sess = [@ EXCEPT !.tx = FALSE, !.view = NoView],
                !.rollbacks = @ + 1]

\* db.close(): the transaction, if any, is rolled back.
close(sess) == [sess EXCEPT !.closes = @ + 1, !.tx = FALSE, !.view = NoView]

(* ---------------------------- the responses --------------------------- *)

Null == [null |-> TRUE, kind |-> "", n |-> 0]
Msg(kind, n) == [null |-> FALSE, kind |-> kind, n |-> n]

\* A response: the template context, the redirect or the exception raised.
Response ==
    [status |-> 200, raised |-> FALSE, columns |-> <<>>, data |-> <<>>,
     primary_keys |-> <<>>, required_columns |-> <<>>,
     sql_error |-> Null, sql_success |-> Null, message_type |-> "", body |-> <<>>,
     branch |-> ""]

\* raise HTTPException(status_code=status), or an exception no handler catches (500).
HTTPException(status) == [Response EXCEPT !.status = status, !.raised = TRUE]
\* RedirectResponse(url=...&message_type=..., status_code=303)
RedirectResponse(message_type) == [Response EXCEPT !.status = 303, !.message_type = message_type]

Out(ctx, resp) == [ctx |-> ctx, resp |-> resp]

(* ------------------------------- queries ------------------------------ *)

RECURSIVE RowDict(_, _, _)
\* row_dict[column] = row[i] for i, column in enumerate(columns)
RowDict(columns, row, i) ==
    IF i = 0 THEN <<>>
    ELSE Let(RowDict(columns, row, i - 1), LAMBDA d : Put(d, columns[i], row[i]))

Fetched(ctx, r) ==
    IF ~r.ok THEN [ctx |-> ctx, raised |-> r.error, columns |-> <<>>, data |-> <<>>]
    ELSE IF ~r.returns_rows
    THEN [ctx |-> ctx, raised |-> "ResourceClosedError", columns |-> <<>>, data |-> <<>>]
    ELSE [ctx |-> ctx, raised |-> "", columns |-> r.keys,
          data |-> [i \in 1..Len(r.rows) |-> RowDict(r.keys, r.rows[i], Len(r.keys))]]

execute_custom_query(ctx, query) ==
    Let(execute(ctx, query, <<>>), LAMBDA e : Fetched(e.ctx, e.result))

\* get_table_data with a commit after the statement.
get_table_data_commit(ctx, table_name) ==
    Let(execute(ctx, <<"SELECT", " ", "*", " ", "FROM", " ", Q>> \o table_name \o <<Q>>, <<>>),
        LAMBDA e : Fetched(commit(e.ctx), e.result))

get_table_data(ctx, table_name) ==
    Let(execute(ctx, <<"SELECT", " ", "*", " ", "FROM", " ", Q>> \o table_name \o <<Q>>, <<>>),
        LAMBDA e : Fetched(e.ctx, e.result))

(* ----------------------------- execute_sql ---------------------------- *)

\* dangerous_keywords with one more keyword in the list.
dangerous_keywords_more ==
    { <<"DROP">>, <<"CREATE">>, <<"ALTER">>, <<"TRUNCATE">>, <<"GRANT">>, <<"REVOKE">>,
      <<"ANALYZE">> }

dangerous_keywords == { <<"DROP">>, <<"CREATE">>, <<"ALTER">>, <<"TRUNCATE">>, <<"GRANT">>,
                        <<"REVOKE">> }

\* query_type without upper(): the keyword is compared as it was typed.
query_type_no_upper(sql_query) == split(strip(sql_query))[1]

\* query_type without split()[0]: the whole text is compared with the keywords.
query_type_whole(sql_query) == strip(upper(sql_query))

\* sql_query.upper().strip().split()[0]
query_type(sql_query) == split(strip(upper(sql_query)))[1]

\* The except SQLAlchemyError branch, entered from a branch of the try block.
SqlFailed(ctx, branch) ==
    Out(rollback(ctx), [Response EXCEPT !.sql_error = Msg("SQLAlchemyError", 0),
                                        !.branch = branch])

execute_sql(ctx, form_sql_query) ==
    LET sql_query == strip(form_sql_query)
    IN  IF sql_query = <<>>
        THEN Out(ctx, [Response EXCEPT !.sql_error = Msg("empty", 0), !.branch = "empty"])
        ELSE IF query_type(sql_query) = <<"SELECT">> THEN
            Let(execute_custom_query(ctx, sql_query), LAMBDA q :
                IF q.raised # "" THEN SqlFailed(q.ctx, "select")
                ELSE Out(q.ctx, [Response EXCEPT !.columns = q.columns, !.data = q.data,
                                                 !.sql_success = Msg("found", Len(q.data)),
                                                 !.branch = "select"]))
        ELSE IF query_type(sql_query) \in { <<"INSERT">>, <<"UPDATE">>, <<"DELETE">> } THEN
            Let(execute(ctx, sql_query, <<>>), LAMBDA e :
                IF ~e.result.ok THEN SqlFailed(e.ctx, "write")
                ELSE Out(commit(e.ctx),
                         [Response EXCEPT !.sql_success = Msg("affected", e.result.rowcount),
                                          !.branch = "write"]))
        ELSE IF query_type(sql_query) \in dangerous_keywords THEN
            Out(ctx, [Response EXCEPT !.sql_error = Msg("restricted", 0), !.branch = "denied"])
        ELSE
            Let(execute(ctx, sql_query, <<>>), LAMBDA e :
                IF ~e.result.ok THEN SqlFailed(e.ctx, "other")
                ELSE Out(commit(e.ctx), [Response EXCEPT !.sql_success = Msg("done", 0),
                                                         !.branch = "other"]))

(* ------------------------- add / edit / delete ------------------------ *)

\* int(value)
IsInt(s) == s \in Numeric
\* float(value)
IsFloat(s) == s \in Floats
\* datetime.date.fromisoformat(value), datetime.datetime.fromisoformat(value)
IsIso(s) == s \in IsoDates

\* Convert without the conversion of the values of Date and DateTime columns.
RECURSIVE ConvertNoDate(_, _, _)
ConvertNoDate(form_dict, columns, i) ==
    IF i > Len(columns) THEN [bad |-> FALSE, form_dict |-> form_dict]
    ELSE LET column == columns[i]
             value == Get(form_dict, column.name)
         IN  IF ~Has(form_dict, column.name) THEN ConvertNoDate(form_dict, columns, i + 1)
             ELSE IF value.s = "" /\ column.nullable
             THEN ConvertNoDate(Put(form_dict, column.name, None), columns, i + 1)
             ELSE IF column.type \in {"Integer", "Numeric"} /\ value.s # ""
             THEN IF column.type = "Integer" /\ IsInt(value.s)
                  THEN ConvertNoDate(Put(form_dict, column.name, IntV(value.s)), columns, i + 1)
                  ELSE IF column.type = "Numeric" /\ IsFloat(value.s)
                  THEN ConvertNoDate(Put(form_dict, column.name, FloatV(value.s)), columns, i + 1)
                  ELSE [bad |-> TRUE, form_dict |-> form_dict]
             ELSE ConvertNoDate(form_dict, columns, i + 1)

\* The loop of add_record over table.columns: the form with the values
\* converted, or the column whose value does not convert.
RECURSIVE Convert(_, _, _)
Convert(form_dict, columns, i) ==
    IF i > Len(columns) THEN [bad |-> FALSE, form_dict |-> form_dict]
    ELSE LET column == columns[i]
             value == Get(form_dict, column.name)
         IN  IF ~Has(form_dict, column.name) THEN Convert(form_dict, columns, i + 1)
             ELSE IF value.s = "" /\ column.nullable
             THEN Convert(Put(form_dict, column.name, None), columns, i + 1)
             ELSE IF column.type \in {"Date", "DateTime"} /\ value.s # ""
             THEN IF IsIso(value.s)
                  THEN Convert(Put(form_dict, column.name,
                                   IF column.type = "Date" THEN DateV(value.s)
                                   ELSE DateTimeV(value.s)), columns, i + 1)
                  ELSE [bad |-> TRUE, form_dict |-> form_dict]
             ELSE IF column.type \in {"Integer", "Numeric"} /\ value.s # ""
             THEN IF column.type = "Integer" /\ IsInt(value.s)
                  THEN Convert(Put(form_dict, column.name, IntV(value.s)), columns, i + 1)
                  ELSE IF column.type = "Numeric" /\ IsFloat(value.s)
                  THEN Convert(Put(form_dict, column.name, FloatV(value.s)), columns, i + 1)
                  ELSE [bad |-> TRUE, form_dict |-> form_dict]
             ELSE Convert(form_dict, columns, i + 1)

Quoted(key) == <<Q>> \o key \o <<Q>>
Comma == <<",", " ">>

\* InsertQuery with the values written into the text in place of the placeholders.
InsertQueryInline(table_name, form_dict) ==
    LET columns == join(Comma, [i \in 1..Len(form_dict) |-> Quoted(form_dict[i][1])])
        values == join(Comma, [i \in 1..Len(form_dict) |-> <<"'", form_dict[i][2].s, "'">>])
    IN  <<"INSERT", " ", "INTO", " ">> \o Quoted(table_name) \o <<" ", "(">> \o columns
            \o <<")", " ", "VALUES", " ", "(">> \o values \o <<")">>

\* f'INSERT INTO "{table_name}" ({columns}) VALUES ({placeholders})'
InsertQuery(table_name, form_dict) ==
    LET columns == join(Comma, [i \in 1..Len(form_dict) |-> Quoted(form_dict[i][1])])
        placeholders == join(Comma, [i \in 1..Len(form_dict) |-> <<":">> \o form_dict[i][1]])
    IN  <<"INSERT", " ", "INTO", " ">> \o Quoted(table_name) \o <<" ", "(">> \o columns
            \o <<")", " ", "VALUES", " ", "(">> \o placeholders \o <<")">>

\* The except SQLAlchemyError branch of add_record, edit_record and delete_record.
Danger(ctx) == Out(rollback(ctx), RedirectResponse("danger"))

\* db.execute(text(query), params); db.commit(); the redirect.
Run(ctx, query, params) ==
    Let(execute(ctx, query, params), LAMBDA e :
        IF ~e.result.ok THEN Danger(e.ctx)
        ELSE Out(commit(e.ctx), RedirectResponse("success")))

add_record(ctx, table_name, form) ==
    IF table_name \notin TableSet THEN Out(ctx, HTTPException(404))
    ELSE Let(Convert(form, Columns(table_name), 1), LAMBDA c :
             IF c.bad THEN Out(ctx, HTTPException(400))
             ELSE Run(ctx, InsertQuery(table_name, c.form_dict), c.form_dict))

\* primary_keys[key[3:]] = value for every key that starts with pk_
PrimaryKeys(form_dict) ==
    LET F[i \in 0..Len(form_dict)] ==
            IF i = 0 THEN <<>>
            ELSE IF startswith_pk(form_dict[i][1])
                 THEN Put(F[i - 1], Tail(form_dict[i][1]), form_dict[i][2])
                 ELSE F[i - 1]
    IN  F[Len(form_dict)]

\* form_dict after del form_dict[key] for every pk_ key, "" replaced by None.
SetValues(form_dict) ==
    LET F[i \in 0..Len(form_dict)] ==
            IF i = 0 THEN <<>>
            ELSE IF startswith_pk(form_dict[i][1]) THEN F[i - 1]
                 ELSE Append(F[i - 1], <<form_dict[i][1],
                                         IF form_dict[i][2].s = "" /\ form_dict[i][2].ty = "str"
                                         THEN None ELSE form_dict[i][2]>>)
    IN  F[Len(form_dict)]

And == <<" ", "AND", " ">>

\* f'UPDATE "{table_name}" SET {set_clause} WHERE {where_clause}'
UpdateQuery(table_name, form_dict, primary_keys) ==
    LET set_clause == join(Comma, [i \in 1..Len(form_dict) |->
                          Quoted(form_dict[i][1]) \o <<" ", "=", " ", ":">> \o form_dict[i][1]])
        where_clause == join(And, [i \in 1..Len(primary_keys) |->
                            Quoted(primary_keys[i][1]) \o <<" ", "=", " ", ":">>
                                \o primary_keys[i][1] \o <<"_pk">>])
    IN  <<"UPDATE", " ">> \o Quoted(table_name) \o <<" ", "SET", " ">> \o set_clause
            \o <<" ", "WHERE", " ">> \o where_clause

\* {f"{key}_pk": value for key, value in primary_keys.items()}
where_values(primary_keys) ==
    LET F[i \in 0..Len(primary_keys)] ==
            IF i = 0 THEN <<>>
            ELSE Put(F[i - 1], primary_keys[i][1] \o <<"_pk">>, primary_keys[i][2])
    IN  F[Len(primary_keys)]

edit_record(ctx, table_name, form) ==
    IF table_name \notin TableSet THEN Out(ctx, HTTPException(404))
    ELSE LET primary_keys == PrimaryKeys(form)
             form_dict == SetValues(form)
         IN  Run(ctx, UpdateQuery(table_name, form_dict, primary_keys),
                 Merge(form_dict, where_values(primary_keys)))

\* f'DELETE FROM "{table_name}" WHERE {where_clause}'
DeleteQuery(table_name, primary_keys) ==
    LET where_clause == join(And, [i \in 1..Len(primary_keys) |->
                            Quoted(primary_keys[i][1]) \o <<" ", "=", " ", ":">>
                                \o primary_keys[i][1]])
    IN  <<"DELETE", " ", "FROM", " ">> \o Quoted(table_name) \o <<" ", "WHERE", " ">>
            \o where_clause

\* delete_record without the check of table_name against the table list.
delete_record_unchecked(ctx, table_name, form) ==
    Let(PrimaryKeys(form), LAMBDA primary_keys :
        Run(ctx, DeleteQuery(table_name, primary_keys), primary_keys))

delete_record(ctx, table_name, form) ==
    IF table_name \notin TableSet THEN Out(ctx, HTTPException(404))
    ELSE LET primary_keys == PrimaryKeys(form)
         IN  Run(ctx, DeleteQuery(table_name, primary_keys), primary_keys)

(* --------------------------- schema endpoints ------------------------- *)

\* [column.name for column in cols if key(column)], for a key of the record.
RECURSIVE NamesWhere(_, _, _)
NamesWhere(cols, field, want) ==
    IF cols = <<>> THEN <<>>
    ELSE (IF Head(cols)[field] = want THEN <<Head(cols).name>> ELSE <<>>)
             \o NamesWhere(Tail(cols), field, want)

\* get_table_info: the reflected primary keys and required columns.
get_table_info(table_name) ==
    [primary_keys |-> NamesWhere(Columns(table_name), "primary_key", TRUE),
     required_columns |-> NamesWhere(Columns(table_name), "nullable", FALSE),
     columns |-> ColumnNames(table_name)]

\* show_tables without the test of table_name against the table list.
show_tables_unchecked(ctx, table_name) ==
    IF table_name # <<>> THEN
        Let(get_table_data(ctx, table_name), LAMBDA q :
            IF q.raised # "" THEN Out(q.ctx, HTTPException(500))
            ELSE Out(q.ctx, [Response EXCEPT
                     !.columns = q.columns, !.data = q.data,
                     !.primary_keys = get_table_info(table_name).primary_keys,
                     !.required_columns = get_table_info(table_name).required_columns]))
    ELSE Out(ctx, Response)

show_tables(ctx, table_name) ==
    IF table_name # <<>> /\ table_name \in TableSet THEN
        Let(get_table_data(ctx, table_name), LAMBDA q :
            IF q.raised # "" THEN Out(q.ctx, HTTPException(500))
            ELSE Out(q.ctx, [Response EXCEPT
                     !.columns = q.columns, !.data = q.data,
                     !.primary_keys = get_table_info(table_name).primary_keys,
                     !.required_columns = get_table_info(table_name).required_columns]))
    ELSE Out(ctx, Response)

\* The texts of the five reports.
ReportQuery(n) == <<"WITH", " ", "report", n>>

run_query(ctx, n) ==
    Let(execute_custom_query(ctx, ReportQuery(n)), LAMBDA q :
        IF q.raised # "" THEN Out(q.ctx, HTTPException(500))
        ELSE Out(q.ctx, [Response EXCEPT !.columns = q.columns, !.data = q.data]))

get_tables_info(ctx) ==
    Out(ctx, [Response EXCEPT !.body =
        [i \in 1..Len(TableNames) |->
            [table |-> TableNames[i], columns |-> Columns(TableNames[i]),
             primary_keys |-> get_table_info(TableNames[i]).primary_keys]]])

show_sql_editor(ctx) == Out(ctx, Response)

\* The first foreign key whose constrained columns hold the column (0: none).
FirstKey(fks, name) ==
    IF \E i \in 1..Len(fks) : name \in Range(fks[i].constrained_columns)
    THEN CHOOSE i \in 1..Len(fks) :
            /\ name \in Range(fks[i].constrained_columns)
            /\ \A k \in 1..(i - 1) : name \notin Range(fks[k].constrained_columns)
    ELSE 0

\* fk['referred_columns'][0]
target_column(fk, name) == fk.referred_columns[1]

input_type(type) ==
    IF type = "Integer" THEN "number"
    ELSE IF type = "Date" THEN "date"
    ELSE IF type = "DateTime" THEN "time"
    ELSE IF type = "Numeric" THEN "number"
    ELSE "text"

NoInfo == [target_table |-> <<>>, target_column |-> <<>>, values |-> <<>>]

\* The loop of get_table_schema over table.columns, from column i on.
RECURSIVE ColumnsInfo(_, _, _, _)
ColumnsInfo(ctx, table_name, i, done) ==
    IF i > Len(Columns(table_name)) THEN [ctx |-> ctx, raised |-> "", columns |-> done]
    ELSE LET column == Columns(table_name)[i]
             fks == foreign_keys[table_name]
             k == FirstKey(fks, column.name)
             base == [name |-> column.name, type |-> column.type,
                      input_type |-> input_type(column.type),
                      is_primary_key |-> column.primary_key, is_nullable |-> column.nullable,
                      is_foreign_key |-> k # 0, has_info |-> FALSE, foreign_key_info |-> NoInfo]
         IN  IF k = 0 THEN ColumnsInfo(ctx, table_name, i + 1, Append(done, base))
             ELSE LET tc == target_column(fks[k], column.name)
                  IN  Let(execute(ctx, <<"SELECT", " ", "DISTINCT", " ">> \o Quoted(tc)
                                           \o <<" ", "FROM", " ">>
                                           \o Quoted(fks[k].referred_table), <<>>),
                          LAMBDA e :
                      IF ~e.result.ok
                      THEN [ctx |-> e.ctx, raised |-> e.result.error, columns |-> done]
                      ELSE Let(Append(done, [base EXCEPT !.has_info = TRUE,
                                   !.foreign_key_info =
                                       [target_table |-> fks[k].referred_table,
                                        target_column |-> tc,
                                        values |-> [j \in 1..Len(e.result.rows) |->
                                                       e.result.rows[j][1]]]]),
                               LAMBDA d : ColumnsInfo(e.ctx, table_name, i + 1, d)))

get_table_schema(ctx, table_name) ==
    IF table_name \notin TableSet THEN Out(ctx, HTTPException(404))
    ELSE Let(ColumnsInfo(ctx, table_name, 1, <<>>), LAMBDA c :
             IF c.raised # "" THEN Out(c.ctx, HTTPException(500))
             ELSE Out(c.ctx, [Response EXCEPT
                      !.primary_keys = get_table_info(table_name).primary_keys,
                      !.required_columns = get_table_info(table_name).required_columns,
                      !.body = c.columns]))

(* ------------------------------ requests ------------------------------ *)

Requests == 1..MaxRequests

NoRequest ==
    [pc |-> "new", sid |-> 0, kind |-> "", n |-> "", table_name |-> <<>>, form |-> <<>>,
     sql_query |-> <<>>, executed |-> <<>>, commits |-> 0, rollbacks |-> 0,
     resp |-> Response]

Row(tn, x, y) == (ColumnNames(tn)[1] :> x) @@ (ColumnNames(tn)[2] :> y)

Composite == [constrained_columns |-> << <<"id">>, <<"v">> >>, referred_table |-> P,
              referred_columns |-> << <<"a">>, <<"b">> >>]
Single == [constrained_columns |-> << <<"id">> >>, referred_table |-> P,
           referred_columns |-> << <<"a">> >>]

\* The foreign keys t may have.
KeyChoices == { <<>>, <<Single>>, <<Composite>>, <<Composite, Single>> }

InitRows ==
    (T :> { Row(T, IntV("1"), StrV("1")), Row(T, IntV("2"), None) })
        @@ (P :> { Row(P, IntV("1"), StrV("1")), Row(P, IntV("2"), StrV("x")) })
        @@ (D :> {})

Init ==
    /\ committed = InitRows
    /\ foreign_keys = (T :> <<Composite>>) @@ (P :> <<>>) @@ (D :> <<>>)
    /\ sessions = <<>>
    /\ req = [r \in Requests |-> NoRequest]

\* Any of the schemas.
InitSchema ==
    /\ committed = InitRows
    /\ foreign_keys \in { (T :> k) @@ (P :> <<>>) @@ (D :> <<>>) : k \in KeyChoices }
    /\ sessions = <<>>
    /\ req = [r \in Requests |-> NoRequest]

\* get_db, to the yield: the request gets the session SessionLocal() makes.
\* Requests are numbered in the order they arrive.
GetDbEnter(r) ==
    /\ req[r].pc = "new"
    /\ \A q \in Requests : q < r => req[q].pc # "new"
    /\ sessions' = Append(sessions, NewSession)
    /\ req' = [req EXCEPT ![r].pc = "open", ![r].sid = Len(sessions) + 1]
    /\ UNCHANGED <<committed, foreign_keys>>

\* get_db with db.close() after the yield but outside a finally: a handler
\* that raises leaves its session open.
GetDbExitNoFinally(r) ==
    /\ req[r].pc = "handled"
    /\ sessions' = [sessions EXCEPT ![req[r].sid] = IF req[r].resp.raised THEN @ ELSE close(@)]
    /\ req' = [req EXCEPT ![r] = [NoRequest EXCEPT !.pc = "done", !.sid = req[r].sid,
                                                   !.resp.raised = req[r].resp.raised]]
    /\ UNCHANGED <<committed, foreign_keys>>

\* get_db, after the yield (finally: db.close()), when the handler has
\* returned or raised.
GetDbExit(r) ==
    /\ req[r].pc = "handled"
    /\ sessions' = [sessions EXCEPT ![req[r].sid] = close(@)]
    /\ req' = [req EXCEPT ![r] = [NoRequest EXCEPT !.pc = "done", !.sid = req[r].sid,
                                                   !.resp.raised = req[r].resp.raised]]
    /\ UNCHANGED <<committed, foreign_keys>>

Ctx0(r) == Ctx(committed, sessions[req[r].sid])

\* The handler of request r ran and left out.
Handled(r, kind, n, table_name, form, sql_query, out) ==
    /\ committed' = out.ctx.db
    /\ sessions' = [sessions EXCEPT ![req[r].sid] = out.ctx.sess]
    /\ req' = [req EXCEPT ![r] =
                 [pc |-> "handled", sid |-> req[r].sid, kind |-> kind, n |-> n,
                  table_name |-> table_name, form |-> form, sql_query |-> sql_query,
                  executed |-> out.ctx.executed, commits |-> out.ctx.commits,
                  rollbacks |-> out.ctx.rollbacks, resp |-> out.resp]]
    /\ UNCHANGED foreign_keys

(* ------------------------------- inputs ------------------------------- *)

\* A field name that closes the quoted identifier it is written in.
Crafted == <<"v", Q, "IS NOT NULL", "--">>

FieldNames == { <<"id">>, <<"v">>, <<"pk_", "id">>, <<"pk_", "v">>,
                <<"pk_">> \o Crafted }
FieldValues == { StrV(""), StrV("1"), StrV("2"), StrV("x") }

\* The forms of at most n fields (dict(form_data) without table_name).
Forms(n) ==
    UNION { { f \in [1..k -> FieldNames \X FieldValues] :
                \A i, j \in 1..k : i # j => f[i][1] # f[j][1] } : k \in 0..n }

TableInputs == { T, P, <<"nosuch">> }

\* The forms of at most n fields over given names and values.
FormsOf(names, values, n) ==
    UNION { { f \in [1..k -> names \X values] :
                \A i, j \in 1..k : i # j => f[i][1] # f[j][1] } : k \in 0..n }

\* The add forms of d: its columns, and values that are and are not
\* integers, numbers and dates.
AddNames == { <<"k">>, <<"d">>, <<"ts">>, <<"n">> }
AddValues == { StrV(""), StrV("1"), StrV("1.5"), StrV("2024-01-01") }

\* Field names of an edit form, one of them ending in _pk.
EditNames == { <<"id">>, <<"v">>, <<"id", "_pk">>, <<"pk_", "id">>, <<"pk_", "v">> }
EditValues == { StrV(""), StrV("1"), StrV("x") }

Leads == { <<>>, <<" ">>, <<"NL", " ">> }
Keywords == { "select", "SELECT", "Select", "insert", "update", "delete", "DELETE", "drop",
              "Drop", "DROP", "CREATE", "alter", "TRUNCATE", "grant", "REVOKE", "analyze" }
Rests == { <<>>, <<" ">>, <<" ", "*", " ", "from", " ", Q, "t", Q>>,
           <<" ", "*", " ", "from", " ", Q, "t", Q, ";", " ", "delete", " ", "from", " ", Q, "t", Q,
             ";", " ", "commit", "NL">>, <<" ", "from", " ", Q, "t", Q>>,
           <<" ", "from", " ", Q, "t", Q, ";", " ", "commit", ";", " ", "select", " ", "*", " ", "from",
             " ", Q, "nosuch", Q>>,
           <<" ", Q, "v", Q, ",", " ", Q, "v", Q, " ", "from", " ", Q, "t", Q>>,
           <<"NL", "table", " ", Q, "t", Q>>, <<";">> }

\* The texts submitted to the SQL editor.
Queries == { <<>>, <<" ">> } \cup { l \o <<k>> \o r : l \in Leads, k \in Keywords, r \in Rests }

(* ------------------------------- actions ------------------------------ *)

ExecuteSql(r, queries) ==
    /\ req[r].pc = "open"
    /\ \E q \in queries :
          \E out \in { execute_sql(Ctx0(r), q) } : Handled(r, "execute_sql", "", <<>>, <<>>, q, out)

AddRecord(r, tables, forms) ==
    /\ req[r].pc = "open"
    /\ \E tn \in tables, f \in forms :
          \E out \in { add_record(Ctx0(r), tn, f) } : Handled(r, "add_record", "", tn, f, <<>>, out)

EditRecord(r, tables, forms) ==
    /\ req[r].pc = "open"
    /\ \E tn \in tables, f \in forms :
          \E out \in { edit_record(Ctx0(r), tn, f) } : Handled(r, "edit_record", "", tn, f, <<>>, out)

DeleteRecord(r, tables, forms) ==
    /\ req[r].pc = "open"
    /\ \E tn \in tables, f \in forms :
          \E out \in { delete_record(Ctx0(r), tn, f) } : Handled(r, "delete_record", "", tn, f, <<>>, out)

ShowTables(r, tables) ==
    /\ req[r].pc = "open"
    /\ \E tn \in tables \cup {<<>>} :
          \E out \in { show_tables(Ctx0(r), tn) } : Handled(r, "show_tables", "", tn, <<>>, <<>>, out)

RunQuery(r) ==
    /\ req[r].pc = "open"
    /\ \E n \in {"1", "2", "3", "4", "5"} :
          \E out \in { run_query(Ctx0(r), n) } : Handled(r, "run_query", n, <<>>, <<>>, <<>>, out)

GetTablesInfo(r) ==
    /\ req[r].pc = "open"
    /\ \E out \in { get_tables_info(Ctx0(r)) } : Handled(r, "get_tables_info", "", <<>>, <<>>, <<>>, out)

ShowSqlEditor(r) ==
    /\ req[r].pc = "open"
    /\ \E out \in { show_sql_editor(Ctx0(r)) } : Handled(r, "show_sql_editor", "", <<>>, <<>>, <<>>, out)

GetTableSchema(r, tables) ==
    /\ req[r].pc = "open"
    /\ \E tn \in tables :
          \E out \in { get_table_schema(Ctx0(r), tn) } : Handled(r, "get_table_schema", "", tn, <<>>, <<>>, out)

\* No other request is in flight.
Alone(r) == \A q \in Requests \ {r} : req[q].pc \in {"new", "done"}

(* --------------------------- specifications --------------------------- *)

SampleQueries ==
    { <<"select", " ", "*", " ", "from", " ", Q, "t", Q>>, <<" ", "SELECT", " ", "*", " ", "from", " ", Q, "t", Q, ";", " ", "delete", " ", "from",
        " ", Q, "t", Q, ";", " ", "commit">>,
      <<"delete", " ", "from", " ", Q, "t", Q>>, <<"Drop", " ", "table", " ", Q, "t", Q>>,
      <<"analyze">>, <<"select">>, <<" ">> }

SampleForms ==
    { << <<<<"pk_", "id">>, StrV("1")>> >>, << <<<<"id">>, StrV("2")>> >>,
      << <<<<"v">>, StrV("x")>> >> }

\* The application: requests overlap, each with a session of its own.
Next ==
    \E r \in Requests :
        \/ GetDbEnter(r)
        \/ GetDbExit(r)
        \/ ExecuteSql(r, SampleQueries)
        \/ AddRecord(r, TableInputs, SampleForms)
        \/ EditRecord(r, TableInputs, SampleForms)
        \/ DeleteRecord(r, TableInputs, SampleForms)
        \/ ShowTables(r, TableInputs)
        \/ RunQuery(r)
        \/ GetTablesInfo(r)
        \/ ShowSqlEditor(r)
        \/ GetTableSchema(r, TableInputs)

Spec == Init /\ [][Next]_vars

\* The SQL editor, one request at a time, over all the texts.
NextSql ==
    \E r \in Requests :
        \/ Alone(r) /\ GetDbEnter(r)
        \/ GetDbExit(r)
        \/ ExecuteSql(r, Queries)

SpecSql == Init /\ [][NextSql]_vars

\* The record forms, one request at a time, over all the forms.
NextCrud ==
    \E r \in Requests :
        \/ Alone(r) /\ GetDbEnter(r)
        \/ GetDbExit(r)
        \/ AddRecord(r, TableInputs, Forms(MaxFields))
        \/ EditRecord(r, TableInputs, Forms(MaxFields))
        \/ DeleteRecord(r, TableInputs, Forms(MaxFields))

SpecCrud == Init /\ [][NextCrud]_vars

\* The add forms of d, one request at a time.
NextAdd ==
    \E r \in Requests :
        \/ Alone(r) /\ GetDbEnter(r)
        \/ GetDbExit(r)
        \/ AddRecord(r, {D}, FormsOf(AddNames, AddValues, MaxFields))

SpecAdd == Init /\ [][NextAdd]_vars

\* The add and edit forms of t, one request at a time, with a field whose
\* name ends in _pk.
NextEdit ==
    \E r \in Requests :
        \/ Alone(r) /\ GetDbEnter(r)
        \/ GetDbExit(r)
        \/ AddRecord(r, {T}, FormsOf(EditNames, EditValues, MaxFields))
        \/ EditRecord(r, {T}, FormsOf(EditNames, EditValues, MaxFields))

SpecEdit == Init /\ [][NextEdit]_vars

\* The schema endpoints, over the schemas.
NextSchema ==
    \E r \in Requests :
        \/ GetDbEnter(r)
        \/ GetDbExit(r)
        \/ ShowTables(r, TableInputs)
        \/ GetTablesInfo(r)
        \/ GetTableSchema(r, TableInputs)

SpecSchema == InitSchema /\ [][NextSchema]_vars

(* ------------------------------- claims ------------------------------- *)

InFlight(r, kind) == req[r].pc = "handled" /\ req[r].kind = kind
\* Request r is handled by this step.
Handles(r) == req[r].pc = "open" /\ req'[r].pc = "handled"

NonEmpty(q) == \E i \in 1..Len(q) : q[i] \notin White
\* The first white-space-delimited token of a non-empty text, in upper case.
FirstToken(q) ==
    LET i == CHOOSE i \in 1..Len(q) : q[i] \notin White /\ \A k \in 1..(i - 1) : q[k] \in White
        j == CHOOSE j \in i..Len(q) :
                /\ \A k \in i..j : q[k] \notin White
                /\ j = Len(q) \/ q[j + 1] \in White
    IN  [k \in 1..(j - i + 1) |-> UpperAtom(q[i + k - 1])]

Denied == { <<"DROP">>, <<"CREATE">>, <<"ALTER">>, <<"TRUNCATE">>, <<"GRANT">>, <<"REVOKE">> }

\* C1: a query whose first token, upper-cased, is DROP, CREATE, ALTER, TRUNCATE,
\* GRANT or REVOKE is never passed to db.execute and never committed, and is
\* answered with a sql_error and no sql_success.
C1_DeniedNeverExecuted ==
    \A r \in Requests :
        (InFlight(r, "execute_sql") /\ NonEmpty(req[r].sql_query)
            /\ FirstToken(req[r].sql_query) \in Denied)
        => /\ req[r].executed = <<>>
           /\ req[r].commits = 0
           /\ ~req[r].resp.sql_error.null
           /\ req[r].resp.sql_success.null

\* A lower-case drop behind leading white space was submitted and answered.
C1_Witness ==
    \E r \in Requests :
        /\ InFlight(r, "execute_sql")
        /\ req[r].sql_query = <<"NL", " ", "drop", "NL", "table", " ", Q, "t", Q>>
        /\ req[r].resp.sql_error = Msg("restricted", 0)

\* The branch the leading keyword stands for.
BranchOf(token) ==
    IF token = <<"SELECT">> THEN "select"
    ELSE IF token \in { <<"INSERT">>, <<"UPDATE">>, <<"DELETE">> } THEN "write"
    ELSE IF token \in Denied THEN "denied"
    ELSE "other"

\* C2: the branch execute_sql takes for a non-empty query is a function of its
\* first token alone (SELECT / INSERT-UPDATE-DELETE / denied / other): two
\* queries with the same first token take the same branch, whatever follows.
C2_BranchByFirstToken ==
    \A r \in Requests :
        (InFlight(r, "execute_sql") /\ NonEmpty(req[r].sql_query))
        => req[r].resp.branch = BranchOf(FirstToken(req[r].sql_query))

\* A query of several tokens took the branch of its first one, and failed.
C2_Witness ==
    \E r \in Requests :
        /\ InFlight(r, "execute_sql")
        /\ req[r].sql_query = <<" ", "Select", "NL", "table", " ", Q, "t", Q>>
        /\ req[r].resp.branch = "select"
        /\ ~req[r].resp.sql_error.null

IsSelect(r) ==
    /\ req[r].kind = "execute_sql" /\ NonEmpty(req[r].sql_query)
    /\ FirstToken(req[r].sql_query) = <<"SELECT">>

\* C7: a query classified as SELECT is executed, its rows are returned when it
\* succeeds, commit is never called for it, and neither the handler nor the
\* close of the session changes the committed database, so that nothing the
\* statement did is committed.
C7_SelectNeverCommitted ==
    [][\A r \in Requests :
          /\ (Handles(r) /\ IsSelect(r)')
             => /\ Len(req'[r].executed) = 1
                /\ req'[r].executed[1].text = strip(req'[r].sql_query)
                /\ req'[r].commits = 0
                /\ committed' = committed
                /\ req'[r].resp.sql_error.null
                   => /\ req'[r].resp.sql_success = Msg("found", Len(req'[r].resp.data))
                      /\ sessions'[req[r].sid].tx
          /\ (req[r].pc = "handled" /\ IsSelect(r) /\ req'[r].pc = "done")
             => /\ committed' = committed
                /\ ~sessions'[req[r].sid].tx]_vars


Crud == {"add_record", "edit_record", "delete_record"}

\* The name a handler binds the value of a submitted field to (<<>>: the
\* handler does not use the field).
BindName(kind, key) ==
    IF kind = "add_record" THEN key
    ELSE IF kind = "edit_record"
    THEN IF Head(key) = "pk_" THEN Tail(key) \o <<"_pk">> ELSE key
    ELSE IF Head(key) = "pk_" THEN Tail(key) ELSE <<>>

\* C3: every value submitted to add_record, edit_record or delete_record,
\* every pk_ value included, reaches the database as the bound parameter of
\* its field and never as part of the text of the statement executed.
C3_ValuesOnlyBound ==
    \A r \in Requests :
        (req[r].pc = "handled" /\ req[r].kind \in Crud)
        => \A i \in 1..Len(req[r].executed) : \A k \in 1..Len(req[r].form) :
              LET text == req[r].executed[i].text
                  params == req[r].executed[i].params
                  value == req[r].form[k][2].s
                  name == BindName(req[r].kind, req[r].form[k][1])
              IN  /\ value # "" => value \notin Range(text)
                  /\ name # <<>> => Has(params, name) /\ Get(params, name).s = value

\* An update with a value to set and a pk_ value was executed and committed.
C3_Witness ==
    \E r \in Requests :
        /\ InFlight(r, "edit_record")
        /\ req[r].form = << << <<"v">>, StrV("x") >>, << <<"pk_", "id">>, StrV("1") >> >>
        /\ Len(req[r].executed) = 1
        /\ req[r].executed[1].params = << << <<"v">>, StrV("x") >>, << <<"id", "_pk">>, StrV("1") >> >>
        /\ req[r].commits = 1

\* C4: every identifier in the text of a statement that add_record,
\* edit_record or delete_record executes is the name of the table, which
\* exists, or of one of its columns.
C4_IdentifiersExist ==
    \A r \in Requests :
        (req[r].pc = "handled" /\ req[r].kind \in Crud)
        => \A i \in 1..Len(req[r].executed) :
              /\ req[r].table_name \in TableSet
              /\ Identifiers(req[r].executed[i].text)
                    \subseteq {req[r].table_name} \cup Range(ColumnNames(req[r].table_name))

\* C5: add_record, edit_record and delete_record for a table_name that is not
\* in the list of tables answer 404, execute no statement, commit nothing and
\* leave the database as it was.
C5_UnknownTable404 ==
    [][\A r \in Requests :
          (Handles(r) /\ req'[r].kind \in Crud /\ req'[r].table_name \notin TableSet)
          => /\ req'[r].resp.status = 404 /\ req'[r].resp.raised
             /\ req'[r].executed = <<>>
             /\ req'[r].commits = 0
             /\ committed' = committed]_vars

\* A delete for a table that does not exist, with a pk_ value, was answered 404.
C5_Witness ==
    \E r \in Requests :
        /\ InFlight(r, "delete_record")
        /\ req[r].table_name = <<"nosuch">>
        /\ \E k \in 1..Len(req[r].form) : Head(req[r].form[k][1]) = "pk_"
        /\ req[r].resp.status = 404

\* The fields of a form whose name starts with pk_.
PkFields(form) == { k \in 1..Len(form) : Head(form[k][1]) = "pk_" }

\* C6: edit_record and delete_record change or delete only rows whose columns
\* equal all of the submitted pk_ values, and with no pk_ field they change or
\* delete no row at all.
C6_OnlyRowsOfThePk ==
    [][\A r \in Requests :
          (Handles(r) /\ req'[r].kind \in {"edit_record", "delete_record"})
          => LET form == req'[r].form
             IN  /\ PkFields(form) = {} => committed' = committed
                 /\ \A tn \in TableSet : \A row \in committed[tn] \ committed'[tn] :
                       /\ tn = req'[r].table_name
                       /\ \A k \in PkFields(form) :
                             /\ Tail(form[k][1]) \in DOMAIN row
                             /\ row[Tail(form[k][1])].s = form[k][2].s]_vars


\* C8: every request has a session of its own, used by no other request; the
\* session is open while the request runs and closed exactly once when the
\* request has ended, whether the handler returned or raised; no statement is
\* executed on a closed session, and a closed session holds no transaction.
C8_SessionPerRequest ==
    /\ \A r, q \in Requests : (r # q /\ req[r].sid # 0 /\ req[q].sid # 0) => req[r].sid # req[q].sid
    /\ \A r \in Requests :
          /\ req[r].pc = "new" <=> req[r].sid = 0
          /\ req[r].sid # 0 => req[r].sid \in DOMAIN sessions
          /\ req[r].pc \in {"open", "handled"} => sessions[req[r].sid].closes = 0
          /\ req[r].pc = "done"
                => sessions[req[r].sid].closes = 1 /\ ~sessions[req[r].sid].tx
    /\ \A s \in DOMAIN sessions :
          /\ ~sessions[s].used_closed
          /\ \E r \in Requests : req[r].sid = s

\* One request has ended by raising and one by returning after a statement;
\* the session of each is closed.
C8_Witness ==
    \E r, q \in Requests :
        /\ req[r].pc = "done" /\ req[r].resp.raised /\ sessions[req[r].sid].closes = 1
        /\ req[q].pc = "done" /\ ~req[q].resp.raised /\ sessions[req[q].sid].closes = 1

\* C9: in the answer of get_table_schema a column is a foreign key exactly
\* when some foreign key of the table constrains it; then foreign_key_info
\* names the referred table and the referred column at the position the
\* column has in that key, and otherwise there is no foreign_key_info.
C9_ForeignKeyInfo ==
    \A r \in Requests :
        (InFlight(r, "get_table_schema") /\ req[r].resp.status = 200)
        => LET fks == foreign_keys[req[r].table_name]
               body == req[r].resp.body
           IN  /\ Len(body) = Len(Columns(req[r].table_name))
               /\ \A i \in 1..Len(body) :
                     LET keys == { k \in 1..Len(fks) :
                                     body[i].name \in Range(fks[k].constrained_columns) }
                     IN  /\ body[i].name = Columns(req[r].table_name)[i].name
                         /\ body[i].is_foreign_key <=> keys # {}
                         /\ body[i].has_info <=> keys # {}
                         /\ keys # {} =>
                               \E k \in keys : \E j \in 1..Len(fks[k].constrained_columns) :
                                  /\ fks[k].constrained_columns[j] = body[i].name
                                  /\ body[i].foreign_key_info.target_table = fks[k].referred_table
                                  /\ body[i].foreign_key_info.target_column
                                        = fks[k].referred_columns[j]

ReadOnly == {"show_tables", "run_query", "show_sql_editor", "get_tables_info", "get_table_schema"}

\* C10: show_tables, the five reports, show_sql_editor, get_tables_info and
\* get_table_schema never commit and leave the committed database as it was,
\* when they run and when their session is closed; a report executes one
\* statement whose text is fixed by the report's number alone.
C10_ReadOnlyEndpoints ==
    [][\A r \in Requests :
          /\ (Handles(r) /\ req'[r].kind \in ReadOnly)
             => /\ req'[r].commits = 0
                /\ committed' = committed
                /\ req'[r].kind = "run_query"
                      => req'[r].executed = <<[text |-> ReportQuery(req'[r].n), params |-> <<>>]>>
          /\ (req[r].pc = "handled" /\ req[r].kind \in ReadOnly /\ req'[r].pc = "done")
             => committed' = committed]_vars

\* A table was shown with its rows and a report was run; the session of each
\* holds a transaction that was not committed.
C10_Witness ==
    \E r, q \in Requests :
        /\ InFlight(r, "show_tables") /\ Len(req[r].resp.data) > 0
        /\ sessions[req[r].sid].tx /\ req[r].commits = 0
        /\ InFlight(q, "run_query") /\ Len(req[q].executed) = 1 /\ sessions[req[q].sid].tx


\* The requests that write: the record forms and the SQL editor with a
\* leading INSERT, UPDATE or DELETE.
Mutating(r) ==
    \/ req[r].kind \in Crud
    \/ /\ req[r].kind = "execute_sql" /\ NonEmpty(req[r].sql_query)
       /\ FirstToken(req[r].sql_query) \in { <<"INSERT">>, <<"UPDATE">>, <<"DELETE">> }

\* The answer of a writing request reports success / an error.
SuccessResult(r) ==
    IF req[r].kind = "execute_sql"
    THEN req[r].resp.sql_error.null /\ ~req[r].resp.sql_success.null
    ELSE req[r].resp.status = 303 /\ req[r].resp.message_type = "success"
ErrorResult(r) ==
    IF req[r].kind = "execute_sql"
    THEN ~req[r].resp.sql_error.null /\ req[r].resp.sql_success.null
    ELSE req[r].resp.status = 303 /\ req[r].resp.message_type = "danger"

\* C11: a writing request that executes its statement ends its transaction in
\* exactly one way: when the engine accepts the text, one commit, no rollback
\* and a success result; when the engine raises, a rollback, no commit, an
\* error result, and nothing committed to the database.
C11_OneEnding ==
    [][\A r \in Requests :
          (Handles(r) /\ Mutating(r)' /\ req'[r].executed # <<>>)
          => /\ Len(req'[r].executed) = 1
             /\ IF Engine(committed, committed, req'[r].executed[1].text,
                          req'[r].executed[1].params).result.ok
                THEN /\ req'[r].commits = 1 /\ req'[r].rollbacks = 0
                     /\ SuccessResult(r)'
                ELSE /\ req'[r].rollbacks = 1 /\ req'[r].commits = 0
                     /\ ErrorResult(r)'
                     /\ committed' = committed]_vars


\* The SQL editor was given a non-empty text whose first token is none of the
\* keywords execute_sql knows.
IsOther(r) ==
    /\ req[r].kind = "execute_sql" /\ NonEmpty(req[r].sql_query)
    /\ BranchOf(FirstToken(req[r].sql_query)) = "other"

IsBlank(r) == req[r].kind = "execute_sql" /\ ~NonEmpty(req[r].sql_query)

\* C12 (as stated): a non-empty query whose leading keyword is none of SELECT,
\* INSERT, UPDATE, DELETE and none of the denied keywords is executed and
\* committed and reported as successful with empty columns and data; an empty
\* or white-space-only query is never executed and gets a sql_error.
C12_OtherAlwaysCommitted ==
    \A r \in Requests :
        /\ (req[r].pc = "handled" /\ IsOther(r))
           => /\ Len(req[r].executed) = 1
              /\ req[r].commits = 1
              /\ ~req[r].resp.sql_success.null /\ req[r].resp.sql_error.null
              /\ req[r].resp.columns = <<>> /\ req[r].resp.data = <<>>
        /\ (req[r].pc = "handled" /\ IsBlank(r))
           => req[r].executed = <<>> /\ ~req[r].resp.sql_error.null

\* C12 (amended): such a query is executed, stripped, as it is; when the engine
\* accepts it, it is committed once and reported as successful, and when the
\* engine raises, it is rolled back, not committed and reported with a
\* sql_error; columns and data are empty either way.  An empty or
\* white-space-only query is never executed or committed and gets a sql_error.
C12_OtherExecuted ==
    [][\A r \in Requests :
          /\ (Handles(r) /\ IsOther(r)')
             => /\ req'[r].executed = <<[text |-> strip(req'[r].sql_query), params |-> <<>>]>>
                /\ req'[r].resp.columns = <<>> /\ req'[r].resp.data = <<>>
                /\ IF Engine(committed, committed, strip(req'[r].sql_query), <<>>).result.ok
                   THEN /\ req'[r].commits = 1 /\ req'[r].rollbacks = 0
                        /\ ~req'[r].resp.sql_success.null /\ req'[r].resp.sql_error.null
                   ELSE /\ req'[r].commits = 0 /\ req'[r].rollbacks = 1
                        /\ req'[r].resp.sql_success.null /\ ~req'[r].resp.sql_error.null
          /\ (Handles(r) /\ IsBlank(r)')
             => /\ req'[r].executed = <<>> /\ req'[r].commits = 0
                /\ ~req'[r].resp.sql_error.null /\ req'[r].resp.sql_success.null
                /\ committed' = committed]_vars

\* An ANALYZE behind white space was executed, committed and reported done.
C12_Witness ==
    \E r \in Requests :
        /\ InFlight(r, "execute_sql")
        /\ req[r].sql_query = <<"NL", " ", "analyze", " ">>
        /\ req[r].executed = <<[text |-> <<"analyze">>, params |-> <<>>]>>
        /\ req[r].commits = 1
        /\ req[r].resp.sql_success = Msg("done", 0)


\* C13: show_tables executes a statement, the SELECT of the table's rows, only
\* for a table_name that is not empty and is in the list of tables; for every
\* other table_name it executes nothing and returns empty columns, data,
\* primary_keys and required_columns.
C13_ShowTablesGuard ==
    \A r \in Requests :
        InFlight(r, "show_tables")
        => IF req[r].table_name # <<>>
              /\ \E i \in 1..Len(TableNames) : TableNames[i] = req[r].table_name
           THEN req[r].executed =
                   <<[text |-> <<"SELECT", " ", "*", " ", "FROM", " ", Q>> \o req[r].table_name
                                   \o <<Q>>,
                      params |-> <<>>]>>
           ELSE /\ req[r].executed = <<>>
                /\ req[r].resp.columns = <<>> /\ req[r].resp.data = <<>>
                /\ req[r].resp.primary_keys = <<>> /\ req[r].resp.required_columns = <<>>

\* A table that does not exist was asked for and nothing was executed, and a
\* table that exists was shown with its columns.
C13_Witness ==
    \E r, q \in Requests :
        /\ InFlight(r, "show_tables") /\ req[r].table_name = <<"nosuch">>
        /\ req[r].executed = <<>> /\ req[r].resp.status = 200
        /\ InFlight(q, "show_tables") /\ req[q].table_name = T
        /\ Len(req[q].executed) = 1 /\ req[q].resp.columns = ColumnNames(T)


\* The value edit_record is to bind for a field that is not a pk_ field.
SetBinding(value) == IF value.s = "" THEN None ELSE value

\* C14: in the parameters of the UPDATE that edit_record executes, every
\* field that is not a pk_ field is bound under its name to the value
\* submitted for it (NULL for the empty string), and every pk_ field is bound
\* under key_pk to its value: neither overwrites the other, also for a field
\* whose name ends in _pk.
C14_BindingsKept ==
    \A r \in Requests :
        (InFlight(r, "edit_record") /\ req[r].executed # <<>>)
        => LET form == req[r].form
               params == req[r].executed[1].params
           IN  \A k \in 1..Len(form) :
                  IF Head(form[k][1]) = "pk_"
                  THEN /\ Has(params, Tail(form[k][1]) \o <<"_pk">>)
                       /\ Get(params, Tail(form[k][1]) \o <<"_pk">>) = form[k][2]
                  ELSE /\ Has(params, form[k][1])
                       /\ Get(params, form[k][1]) = SetBinding(form[k][2])


\* C16: add_record binds an empty string as NULL exactly for a field that
\* names a nullable column of the table and leaves it the empty string
\* otherwise; edit_record binds an empty string as NULL for every field that
\* is not a pk_ field; the value of a pk_ field is bound as it was submitted.
C16_EmptyToNull ==
    \A r \in Requests :
        (req[r].pc = "handled" /\ req[r].kind \in {"add_record", "edit_record"}
            /\ req[r].executed # <<>>)
        => LET form == req[r].form
               params == req[r].executed[1].params
               nullable(key) ==
                   \E col \in Range(Columns(req[r].table_name)) : col.name = key /\ col.nullable
           IN  \A k \in 1..Len(form) :
                  LET key == form[k][1]
                      value == form[k][2]
                  IN  IF req[r].kind = "add_record"
                      THEN value.s = ""
                              => Get(params, key) = IF nullable(key) THEN None ELSE StrV("")
                      ELSE IF Head(key) = "pk_"
                      THEN Get(params, Tail(key) \o <<"_pk">>) = value
                      ELSE value.s = "" => Get(params, key) = None


\* A non-empty value that does not convert to the type of a column.
Unconvertible(type, s) ==
    /\ s # ""
    /\ \/ type \in {"Date", "DateTime"} /\ s # "2024-01-01"
       \/ type = "Integer" /\ s \notin {"1", "2"}
       \/ type = "Numeric" /\ s \notin {"1", "2", "1.5"}

\* C15: add_record for a form with a non-empty value that is not an ISO date
\* for a Date or DateTime column, or not a number for an Integer or Numeric
\* column, answers 400 and executes nothing: no INSERT, no commit, no
\* rollback, and the database is unchanged.
C15_BadValue400 ==
    [][\A r \in Requests :
          (/\ Handles(r) /\ req'[r].kind = "add_record" /\ req'[r].table_name \in TableSet
           /\ \E k \in 1..Len(req'[r].form) : \E col \in Range(Columns(req'[r].table_name)) :
                 /\ col.name = req'[r].form[k][1]
                 /\ Unconvertible(col.type, req'[r].form[k][2].s))
          => /\ req'[r].resp.status = 400 /\ req'[r].resp.raised
             /\ req'[r].executed = <<>>
             /\ req'[r].commits = 0 /\ req'[r].rollbacks = 0
             /\ committed' = committed
             /\ sessions'[req[r].sid] = sessions[req[r].sid]]_vars

\* A form with a date that converts and a number that does not was answered
\* 400, after a row with a date and a number had been inserted.
C15_Witness ==
    \E r \in Requests :
        /\ InFlight(r, "add_record") /\ req[r].table_name = D
        /\ req[r].form = << << <<"d">>, StrV("2024-01-01") >>, << <<"n">>, StrV("2024-01-01") >> >>
        /\ req[r].resp.status = 400
        /\ \E row \in committed[D] : row[<<"d">>] = DateV("2024-01-01")


\* The request returns the rows of the one statement it executed.
Tabular(r) ==
    /\ req[r].kind \in {"execute_sql", "show_tables", "run_query"}
    /\ Len(req[r].executed) = 1
    /\ req[r].resp.status = 200 /\ req[r].resp.sql_error.null
    /\ req[r].kind = "execute_sql" => req[r].resp.branch = "select"

\* C17: the data of a tabular result holds one dictionary per fetched row, in
\* fetch order, and each dictionary has one entry for every element of the
\* columns list, as many entries as the list has elements, with the row's
\* value at that position.
C17_OneEntryPerColumn ==
    [][\A r \in Requests :
          (Handles(r) /\ Tabular(r)')
          => LET res == Engine(committed, committed, req'[r].executed[1].text, <<>>).result
                 columns == req'[r].resp.columns
                 data == req'[r].resp.data
             IN  /\ columns = res.keys
                 /\ Len(data) = Len(res.rows)
                 /\ \A i \in 1..Len(data) :
                       /\ Len(data[i]) = Len(columns)
                       /\ \A j \in 1..Len(columns) :
                             /\ Has(data[i], columns[j])
                             /\ Get(data[i], columns[j]) = res.rows[i][j]]_vars

====
